---- MODULE Spec2Model ----
(***************************************************************************)
(* package_simde.py: amalgamation of a fixed list of headers into a        *)
(* staging directory and a zip archive.                                    *)
(*                                                                         *)
(* Text is a sequence of one-character strings; the fixed texts the        *)
(* program writes (banner, marker delimiters) are single longer strings in *)
(* such a sequence.  A path is the sequence of its components below the    *)
(* invocation directory (os.getcwd()), which the model takes as the        *)
(* filesystem root; the tree holds no symbolic links.                      *)
(***************************************************************************)
EXTENDS Naturals, Sequences, FiniteSets, TLC

(* ------------------------------------------------------------------ *)
(* Bounds                                                              *)
(* ------------------------------------------------------------------ *)

\* Largest number of lines of a configured header.
MaxLines == 2

\* Largest number of source files that vanish in one behaviour.
MaxVanish == 1

(* ------------------------------------------------------------------ *)
(* Text helpers                                                        *)
(* ------------------------------------------------------------------ *)

NL == "\n"
CR == "\r"

\* Python's str whitespace as seen by \s (the characters the model uses).
IsSpace(c) == c \in {" ", "\t", "\n", "\r", "\f"}

RECURSIVE Flatten(_)
\* The concatenation of a sequence of texts.
Flatten(ss) == IF ss = <<>> THEN <<>> ELSE Head(ss) \o Flatten(Tail(ss))

RECURSIVE Translate(_)
\* open(filename, 'r'): universal newlines; "\r\n" and a lone "\r" are read as "\n".
Translate(raw) ==
    IF raw = <<>> THEN <<>>
    ELSE IF Head(raw) = CR
         THEN IF Len(raw) >= 2 /\ raw[2] = NL
              THEN <<NL>> \o Translate(Tail(Tail(raw)))
              ELSE <<NL>> \o Translate(Tail(raw))
         ELSE <<Head(raw)>> \o Translate(Tail(raw))

RECURSIVE SplitKeep(_, _)
\* The lines of text t, each with its "\n"; cur is the line being collected.
SplitKeep(t, cur) ==
    IF t = <<>> THEN (IF cur = <<>> THEN <<>> ELSE <<cur>>)
    ELSE IF Head(t) = NL
         THEN <<Append(cur, NL)>> \o SplitKeep(Tail(t), <<>>)
         ELSE SplitKeep(Tail(t), Append(cur, Head(t)))

\* for source_line in input_file: the lines as the program sees them.
ReadLines(raw) ==
    CHOOSE lines \in {SplitKeep(text, <<>>) : text \in {Translate(raw)}} : TRUE

RECURSIVE RawSplit(_, _)
\* The lines of the file as stored, each with its own line ending
\* ("\n", "\r\n" or "\r"); the i-th one is what ReadLines yields as line i.
RawSplit(raw, cur) ==
    IF raw = <<>> THEN (IF cur = <<>> THEN <<>> ELSE <<cur>>)
    ELSE IF Head(raw) = CR /\ Len(raw) >= 2 /\ raw[2] = NL
         THEN <<cur \o <<CR, NL>>>> \o RawSplit(Tail(Tail(raw)), <<>>)
         ELSE IF Head(raw) \in {CR, NL}
              THEN <<Append(cur, Head(raw))>> \o RawSplit(Tail(raw), <<>>)
              ELSE RawSplit(Tail(raw), Append(cur, Head(raw)))

RawLines(raw) == RawSplit(raw, <<>>)

(* ------------------------------------------------------------------ *)
(* amalgamate_include                                                  *)
(* ------------------------------------------------------------------ *)

NoMatch == <<>>

RECURSIVE SkipSpace(_, _)
\* \s* from position i: the first position at or after i that holds no whitespace.
SkipSpace(s, i) ==
    IF i <= Len(s) /\ IsSpace(s[i]) THEN SkipSpace(s, i + 1) ELSE i

IncludeWord == <<"i", "n", "c", "l", "u", "d", "e">>

\* The position of the closing quote that "\"\s$" allows: the quote, one
\* whitespace character, then the end of the string or its final "\n".
ClosingQuote(s) ==
    LET n == Len(s) IN
    IF n >= 2 /\ s[n - 1] = "\"" /\ IsSpace(s[n]) THEN n - 1
    ELSE IF n >= 3 /\ s[n - 2] = "\"" /\ IsSpace(s[n - 1]) /\ s[n] = NL THEN n - 2
    ELSE 0

\* re.compile(r'^\s*#\s*include\s+\"([^)]+)\"\s$').match(s): group(1), or NoMatch.
IncludeMatch(s) ==
    LET h == SkipSpace(s, 1)
        w == SkipSpace(s, h + 1)
        e == w + Len(IncludeWord)
        q == SkipSpace(s, e)
        c == ClosingQuote(s)
    IN  IF /\ h <= Len(s) /\ s[h] = "#"
           /\ e - 1 <= Len(s) /\ SubSeq(s, w, e - 1) = IncludeWord
           /\ q > e
           /\ q <= Len(s) /\ s[q] = "\""
           /\ c > q + 1
           /\ \A k \in (q + 1)..(c - 1) : s[k] # ")"
        THEN SubSeq(s, q + 1, c - 1)
        ELSE NoMatch

(* ------------------------------------------------------------------ *)
(* Paths                                                               *)
(* ------------------------------------------------------------------ *)

RECURSIVE SplitPath(_, _)
\* The components of a path text, split at "/"; cur is the component collected.
SplitPath(t, cur) ==
    IF t = <<>> THEN <<cur>>
    ELSE IF Head(t) = "/" THEN <<cur>> \o SplitPath(Tail(t), "")
         ELSE SplitPath(Tail(t), cur \o Head(t))

RECURSIVE PathText(_)
\* A path written with forward slashes.
PathText(p) ==
    IF p = <<>> THEN <<".">>
    ELSE IF Len(p) = 1 THEN <<p[1]>>
         ELSE <<p[1], "/">> \o PathText(Tail(p))

\* os.path.join(dir, name): an absolute name replaces dir.
Join(dir, name) ==
    IF name # <<>> /\ Head(name) = "/" THEN SplitPath(name, "")
    ELSE dir \o SplitPath(name, "")

RECURSIVE Norm(_, _)
Norm(p, acc) ==
    IF p = <<>> THEN acc
    ELSE IF Head(p) \in {"", "."} THEN Norm(Tail(p), acc)
         ELSE IF Head(p) = ".."
              THEN Norm(Tail(p), IF acc = <<>> THEN <<>> ELSE SubSeq(acc, 1, Len(acc) - 1))
              ELSE Norm(Tail(p), Append(acc, Head(p)))

\* os.path.realpath(p) in a tree without symbolic links.
RealPath(p) == Norm(p, <<>>)

\* os.path.dirname(p) of a canonical path.
DirName(p) == IF p = <<>> THEN <<>> ELSE SubSeq(p, 1, Len(p) - 1)

(* ------------------------------------------------------------------ *)
(* Program constants                                                   *)
(* ------------------------------------------------------------------ *)

\* The configured list, cut to two entries in two directories.
EXPECTED_FILES == << <<"x", "/", "a">>, <<"y", "/", "a">> >>

\* os.path.abspath(args.source) with the default --source, below the root.
source_dir == <<"simde">>

\* os.getcwd(): the root of the modelled tree.
repo_root == <<>>

version == "0.8.4"
base_dir_name == "simde-" \o version

\* args.git_hash, or get_git_id(source_dir) outside a repository.
git_id == "unknown"

\* The regular files the source tree can hold, and its directories.
Files == {<<"simde", "x", "a">>, <<"simde", "x", "b">>, <<"simde", "y", "a">>}
Dirs  == {<<>>, <<"simde">>, <<"simde", "x">>, <<"simde", "y">>}

LicensePath == <<"COPYING">>
LicenseText == << <<"license", NL>> >>

\* What an earlier run left behind in a file.
Stale == << <<"stale", NL>> >>

EmptyMap == [p \in {} |-> <<>>]

(* ------------------------------------------------------------------ *)
(* State                                                               *)
(* ------------------------------------------------------------------ *)

VARIABLES
    fs,                \* source tree: Files -> [state, text]
    copying,           \* os.path.exists('COPYING')
    staging,           \* base_dir: [exists, dirs, files], files: path -> writes
    archive,           \* archive_name: [exists, entries]
    pc,                \* where main is
    idx,               \* position of the for loop in EXPECTED_FILES
    dest,              \* dest_path of the open outfile, below base_dir
    stack,             \* the active calls of amalgamate, outermost first
    already_included,  \* the list threaded through one top-level call
    prov,              \* history: for each write to outfile, the call and line it came from
    found,             \* history: the entries whose source_path existed in this run
    changed,           \* history: a source file vanished since this run started
    prev               \* history: what the last completed run produced, valid when
                       \* no source file vanished in it or since

vars == <<fs, copying, staging, archive, pc, idx, dest, stack, already_included,
          prov, found, changed, prev>>

NoStaging == [exists |-> FALSE, dirs |-> {}, files |-> EmptyMap]
NoArchive == [exists |-> FALSE, entries |-> EmptyMap]
NoPrev    == [valid |-> FALSE, staging |-> NoStaging, archive |-> NoArchive]

(* ------------------------------------------------------------------ *)
(* The filesystem as the program reads it                              *)
(* ------------------------------------------------------------------ *)

\* What a canonical path names.
Kind(p) ==
    IF p \in Dirs THEN "dir"
    ELSE IF p \in Files /\ fs[p].state = "file" THEN "file"
    ELSE "none"

RECURSIVE Walk(_, _)
\* Path resolution from directory cur: the path reached, or <<"?">> when a
\* component is looked up in something that is not a directory.
Walk(p, cur) ==
    IF p = <<>> THEN cur
    ELSE IF Kind(cur) # "dir" THEN <<"?">>
         ELSE IF Head(p) \in {"", "."} THEN Walk(Tail(p), cur)
              ELSE IF Head(p) = ".." THEN Walk(Tail(p), DirName(cur))
                   ELSE Walk(Tail(p), Append(cur, Head(p)))

\* os.path.exists(p)
Exists(p) == Kind(Walk(p, <<>>)) # "none"

\* open(filename, 'r'): "ok", "notfound" (FileNotFoundError) or "raise"
\* (another OSError, IsADirectoryError for a directory).
OpenResult(filename) ==
    LET k == Kind(Walk(filename, <<>>))
    IN  IF k = "file" THEN "ok" ELSE IF k = "dir" THEN "raise" ELSE "notfound"

(* ------------------------------------------------------------------ *)
(* What amalgamate writes                                              *)
(* ------------------------------------------------------------------ *)

Banner1 == <<"/* AUTOMATICALLY GENERATED FILE, DO NOT MODIFY */", NL>>
Banner2 == <<"/* ", git_id, " */", NL>>
BeginMarker(rel) == <<"/* :: Begin ">> \o rel \o <<" :: */", NL>>
EndMarker(rel)   == <<"/* :: End ">> \o rel \o <<" :: */", NL>>
ErrorLine(filename) ==
    <<"/* ERROR: Could not find file ", "/">> \o PathText(filename) \o <<" */", NL>>

\* os.path.relpath(full_path, start=src_root).replace('\\', '/')
RelPathStr(full_path) == PathText(full_path)

\* A write that strips the line first.
VerbatimStripped(source_line) ==
    IF source_line # <<>> /\ IsSpace(source_line[Len(source_line)])
    THEN SubSeq(source_line, 1, Len(source_line) - 1)
    ELSE source_line

\* stream.write(source_line), to a stream opened with newline='\n'.
Verbatim(source_line) == source_line

\* The marker written after the last line of a file.
EndChunk(f) == EndMarker(f.rel_path_str)

\* The list of the call before, handed on.
SharedRecord == already_included

\* The list main hands to a top-level call.
FreshRecord == <<>>

\* A record that is never added to.
RecordedNothing(inc, full_path) == inc

\* already_included.append(full_path)
Recorded(inc, full_path) == Append(inc, full_path)

\* A membership test that looks at the newest element only.
InRecordNewest(inc, full_path) == inc # <<>> /\ inc[Len(inc)] = full_path

\* full_path in already_included
InRecord(inc, full_path) == \E i \in 1..Len(inc) : inc[i] = full_path

\* A call of amalgamate(filename, ...) that has not run yet; parent and ln name
\* the call and the line it was made from (0 for main's call).
CallFrame(filename, parent, ln) ==
    [filename |-> filename, full_path |-> RealPath(filename),
     srcdir |-> DirName(RealPath(filename)), stage |-> "call",
     rel_path_str |-> <<>>, lines |-> <<>>, raw |-> <<>>, ln |-> 0,
     call |-> 0, parent |-> parent, at |-> ln]

Top == stack[Len(stack)]
Pop(s) == SubSeq(s, 1, Len(s) - 1)

\* One write to outfile, with its history entry.
Entry(kind, f, c, ln, raw) ==
    [kind |-> kind, path |-> f.full_path, call |-> c, ln |-> ln, raw |-> raw,
     parent |-> f.parent, at |-> f.at]

NextCall == Cardinality({k \in 1..Len(prov) : prov[k].kind = "banner1"}) + 1

Write(chunks) ==
    staging' = [staging EXCEPT !.files[dest] = @ \o chunks]

(* ------------------------------------------------------------------ *)
(* main                                                                *)
(* ------------------------------------------------------------------ *)

RECURSIVE Ancestors(_)
\* os.makedirs(d): d and the directories above it.
Ancestors(d) == IF d = <<>> THEN {<<>>} ELSE {d} \cup Ancestors(DirName(d))

\* The directories made, and what is there left in place.
KeptStaging(old) ==
    [exists |-> TRUE, dirs |-> old.dirs \cup Ancestors(<<"simde">>), files |-> old.files]

\* rmtree(base_dir) when it exists, then os.makedirs(output_simde_dir).
FreshStaging(old) ==
    [exists |-> TRUE, dirs |-> Ancestors(<<"simde">>), files |-> EmptyMap]

\* os.remove(archive_name) when it exists.
RemovedArchive(old) == NoArchive

\* main, to the start of the for loop: the old staging directory and archive go.
MainStart ==
    /\ pc = "start"
    /\ staging' = FreshStaging(staging)
    /\ archive' = RemovedArchive(archive)
    /\ idx' = 1
    /\ pc' = "loop"
    /\ dest' = <<>>
    /\ stack' = <<>>
    /\ already_included' = <<>>
    /\ prov' = <<>>
    /\ found' = {}
    /\ changed' = FALSE
    /\ UNCHANGED <<fs, copying, prev>>

SourcePath(i) == Join(source_dir, EXPECTED_FILES[i])
DestPath(i)   == Join(<<"simde">>, EXPECTED_FILES[i])

\* One pass of the for loop whose source_path exists: outfile is opened and
\* amalgamate is called on it with a record of its own.
MainOpen ==
    /\ pc = "loop"
    /\ idx <= Len(EXPECTED_FILES)
    /\ \E source_path \in {SourcePath(idx)}, dest_path \in {DestPath(idx)} :
         /\ Exists(source_path)
         /\ staging' = [staging EXCEPT
                          !.dirs = @ \cup Ancestors(DirName(dest_path)),
                          !.files = (dest_path :> <<>>) @@ @]
         /\ dest' = dest_path
         /\ stack' = <<CallFrame(source_path, 0, 0)>>
    /\ already_included' = FreshRecord
    /\ prov' = <<>>
    /\ found' = found \cup {idx}
    /\ pc' = "amalgamate"
    /\ UNCHANGED <<fs, copying, archive, idx, changed, prev>>

\* A pass that opens outfile before it looks for source_path.
MainSkipAfterOpen ==
    /\ pc = "loop"
    /\ idx <= Len(EXPECTED_FILES)
    /\ \E source_path \in {SourcePath(idx)}, dest_path \in {DestPath(idx)} :
         /\ ~Exists(source_path)
         /\ staging' = [staging EXCEPT
                          !.dirs = @ \cup Ancestors(DirName(dest_path)),
                          !.files = (dest_path :> <<>>) @@ @]
    /\ idx' = idx + 1
    /\ UNCHANGED <<fs, copying, archive, pc, dest, stack, already_included,
                   prov, found, changed, prev>>

\* One pass of the for loop whose source_path is missing: a warning, no file.
MainSkip ==
    /\ pc = "loop"
    /\ idx <= Len(EXPECTED_FILES)
    /\ \E source_path \in {SourcePath(idx)}, dest_path \in {DestPath(idx)} :
         /\ ~Exists(source_path)
         /\ staging' = [staging EXCEPT !.dirs = @ \cup Ancestors(DirName(dest_path))]
    /\ idx' = idx + 1
    /\ UNCHANGED <<fs, copying, archive, pc, dest, stack, already_included,
                   prov, found, changed, prev>>

\* After the loop: the license file is copied when there is one.
MainCopy ==
    /\ pc = "loop"
    /\ idx > Len(EXPECTED_FILES)
    /\ staging' = IF copying
                  THEN [staging EXCEPT !.files = (LicensePath :> LicenseText) @@ @]
                  ELSE staging
    /\ pc' = "archive"
    /\ UNCHANGED <<fs, copying, archive, idx, dest, stack, already_included,
                   prov, found, changed, prev>>

\* os.path.relpath(file_path, start=output_dir)
ArcName(p) == <<base_dir_name>> \o p

\* os.walk(base_dir) and zf.write: every file below base_dir, no directory.
Zipped(st) ==
    [exists |-> TRUE,
     entries |-> [a \in {ArcName(p) : p \in DOMAIN st.files} |->
                    st.files[SubSeq(a, 2, Len(a))]]]

MainArchive ==
    /\ pc = "archive"
    /\ archive' = Zipped(staging)
    /\ pc' = "done"
    /\ UNCHANGED <<fs, copying, staging, idx, dest, stack, already_included,
                   prov, found, changed, prev>>

(* ------------------------------------------------------------------ *)
(* amalgamate                                                          *)
(* ------------------------------------------------------------------ *)

\* The two lines every call writes first.
Banners(f, c) ==
    /\ Write(<<Banner1, Banner2>>)
    /\ prov' = prov \o <<Entry("banner1", f, c, 0, <<>>), Entry("banner2", f, c, 0, <<>>)>>

\* The control state after the innermost call returned: its caller goes on with
\* its next line, and main with its next entry.
Return ==
    /\ stack' = Pop(stack)
    /\ IF Len(stack) = 1
       THEN pc' = "loop" /\ idx' = idx + 1
       ELSE UNCHANGED <<pc, idx>>

\* A call for a file already in the record: the banner and nothing more.
AmalgamateSkip ==
    /\ pc = "amalgamate"
    /\ Top.stage = "call"
    /\ InRecord(already_included, Top.full_path)
    /\ Banners(Top, NextCall)
    /\ Return
    /\ UNCHANGED <<fs, copying, archive, dest, already_included, found, changed, prev>>

\* A call for a new file that opens: the banner and the begin marker; the lines
\* are read from here on.
AmalgamateOpen ==
    /\ pc = "amalgamate"
    /\ Top.stage = "call"
    /\ ~InRecord(already_included, Top.full_path)
    /\ OpenResult(Top.filename) = "ok"
    /\ already_included' = Recorded(already_included, Top.full_path)
    /\ \E c \in {NextCall}, rel \in {RelPathStr(Top.full_path)},
          txt \in {fs[Walk(Top.filename, <<>>)].text} :
           /\ staging' = [staging EXCEPT
                            !.files[dest] = @ \o <<Banner1, Banner2, BeginMarker(rel)>>]
           /\ prov' = prov \o <<Entry("banner1", Top, c, 0, <<>>),
                                Entry("banner2", Top, c, 0, <<>>),
                                Entry("begin", Top, c, 0, <<>>)>>
           /\ stack' = [stack EXCEPT ![Len(stack)] =
                          [@ EXCEPT !.stage = "body", !.rel_path_str = rel,
                                    !.lines = ReadLines(txt), !.raw = RawLines(txt),
                                    !.ln = 1, !.call = c]]
    /\ UNCHANGED <<fs, copying, archive, pc, idx, dest, found, changed, prev>>

\* A call for a new file that is gone: the banner and one diagnostic line.
AmalgamateNotFound ==
    /\ pc = "amalgamate"
    /\ Top.stage = "call"
    /\ ~InRecord(already_included, Top.full_path)
    /\ OpenResult(Top.filename) = "notfound"
    /\ already_included' = Recorded(already_included, Top.full_path)
    /\ LET c == NextCall
       IN  /\ staging' = [staging EXCEPT
                            !.files[dest] = @ \o <<Banner1, Banner2, ErrorLine(Top.filename)>>]
           /\ prov' = prov \o <<Entry("banner1", Top, c, 0, <<>>),
                                Entry("banner2", Top, c, 0, <<>>),
                                Entry("error", Top, c, 0, <<>>)>>
    /\ Return
    /\ UNCHANGED <<fs, copying, archive, dest, found, changed, prev>>

\* A call for a new file whose open raises something other than
\* FileNotFoundError: no handler on the way up catches it, and main ends.
AmalgamateRaise ==
    /\ pc = "amalgamate"
    /\ Top.stage = "call"
    /\ ~InRecord(already_included, Top.full_path)
    /\ OpenResult(Top.filename) = "raise"
    /\ already_included' = Recorded(already_included, Top.full_path)
    /\ Banners(Top, NextCall)
    /\ stack' = <<>>
    /\ pc' = "crashed"
    /\ UNCHANGED <<fs, copying, archive, idx, dest, found, changed, prev>>

\* The path an include line names, from the including file's directory.
IncPath(f, source_line) == Join(f.srcdir, IncludeMatch(source_line))

\* An include directive, whether or not its target exists.
ResolvableUnchecked(f, source_line) == IncludeMatch(source_line) # NoMatch

\* Whether the line is an include directive whose target exists.
Resolvable(f, source_line) ==
    /\ IncludeMatch(source_line) # NoMatch
    /\ \E include_path \in {IncPath(f, source_line)} : Exists(include_path)

\* A line that includes an existing path: amalgamate is called on it.
AmalgamateInclude ==
    /\ pc = "amalgamate"
    /\ Top.stage = "body"
    /\ Top.ln <= Len(Top.lines)
    /\ \E source_line \in {Top.lines[Top.ln]} :
         /\ Resolvable(Top, source_line)
         /\ \E include_path \in {IncPath(Top, source_line)} :
              stack' = [stack EXCEPT ![Len(stack)] = [@ EXCEPT !.ln = @ + 1]]
                         \o <<CallFrame(include_path, Top.call, Top.ln)>>
    /\ UNCHANGED <<fs, copying, staging, archive, pc, idx, dest, already_included,
                   prov, found, changed, prev>>

\* Any other line, an include of a missing path among them, is written as read.
AmalgamateLine ==
    /\ pc = "amalgamate"
    /\ Top.stage = "body"
    /\ Top.ln <= Len(Top.lines)
    /\ \E source_line \in {Top.lines[Top.ln]} :
         /\ ~Resolvable(Top, source_line)
         /\ Write(<<Verbatim(source_line)>>)
    /\ prov' = Append(prov, Entry("line", Top, Top.call, Top.ln, Top.raw[Top.ln]))
    /\ stack' = [stack EXCEPT ![Len(stack)] = [@ EXCEPT !.ln = @ + 1]]
    /\ UNCHANGED <<fs, copying, archive, pc, idx, dest, already_included,
                   found, changed, prev>>

\* After the last line: the end marker, and the call returns.
AmalgamateEnd ==
    /\ pc = "amalgamate"
    /\ Top.stage = "body"
    /\ Top.ln > Len(Top.lines)
    /\ Write(<<EndChunk(Top)>>)
    /\ prov' = Append(prov, Entry("end", Top, Top.call, Top.ln, <<>>))
    /\ Return
    /\ UNCHANGED <<fs, copying, archive, dest, already_included, found, changed, prev>>

(* ------------------------------------------------------------------ *)
(* The environment                                                     *)
(* ------------------------------------------------------------------ *)

\* A source file is removed while the program runs (the case the handler of
\* FileNotFoundError is there for).
Vanish ==
    /\ pc \in {"loop", "amalgamate"}
    /\ Cardinality({p \in Files : fs[p].state = "gone"}) < MaxVanish
    /\ \E p \in Files :
         /\ fs[p].state = "file"
         /\ fs' = [fs EXCEPT ![p].state = "gone"]
    /\ changed' = TRUE
    /\ prev' = NoPrev
    /\ UNCHANGED <<copying, staging, archive, pc, idx, dest, stack, already_included,
                   prov, found>>

\* The program is run again on what the last run left.
Rerun ==
    /\ pc \in {"done", "crashed"}
    /\ pc' = "start"
    /\ prev' = IF pc = "done"
               THEN [valid |-> ~changed, staging |-> staging, archive |-> archive]
               ELSE prev
    /\ UNCHANGED <<fs, copying, staging, archive, idx, dest, stack, already_included,
                   prov, found, changed>>

Program ==
    \/ MainStart \/ MainOpen \/ MainSkip \/ MainCopy \/ MainArchive
    \/ AmalgamateSkip \/ AmalgamateOpen \/ AmalgamateNotFound \/ AmalgamateRaise
    \/ AmalgamateInclude \/ AmalgamateLine \/ AmalgamateEnd

Next == Program \/ Vanish \/ Rerun

(* ------------------------------------------------------------------ *)
(* Initial states                                                      *)
(* ------------------------------------------------------------------ *)

A1 == <<"simde", "x", "a">>
A2 == <<"simde", "y", "a">>
B  == <<"simde", "x", "b">>

\* #include "name", without its line ending.
LocalInclude(name) == <<"#">> \o IncludeWord \o <<" ", "\"">> \o name \o <<"\"">>

IncB     == LocalInclude(<<"b">>) \o <<NL>>
IncA     == LocalInclude(<<"a">>) \o <<NL>>
IncXB    == LocalInclude(<<".", ".", "/", "x", "/", "b">>) \o <<NL>>
IncUp    == LocalInclude(<<".", ".">>) \o <<NL>>
TextLine == <<"t", NL>>

IncB1Space  == LocalInclude(<<"b">>) \o <<" ", NL>>
IncB2Spaces == LocalInclude(<<"b">>) \o <<" ", " ", NL>>
IncBNoEol   == LocalInclude(<<"b">>)
IncBCrLf    == LocalInclude(<<"b">>) \o <<CR, NL>>
IncBLead    == <<" ", "#", " ">> \o IncludeWord \o <<" ", " ", "\"", "b", "\"", "\t", NL>>
IncBAngle   == <<"#">> \o IncludeWord \o <<" ", "<", "b", ">", NL>>
IncBQuoted  == <<"/", "/">> \o LocalInclude(<<"b">>) \o <<NL>>
IncBTrail   == LocalInclude(<<"b">>) \o <<" ", "/", "/", "c", NL>>
IncZCrLf    == LocalInclude(<<"z">>) \o <<CR, NL>>
TextCrLf    == <<"t", CR, NL>>

\* The lines of a header in the runs about the include graph.
GraphLines == {IncB, IncA, IncXB, TextLine}

\* The lines of a header in the runs about the treatment of single lines.
LineForms == {IncB, IncB1Space, IncB2Spaces, IncBNoEol, IncBCrLf, IncBLead, IncBAngle,
              IncBQuoted, IncBTrail, IncZCrLf, TextCrLf, IncUp}

\* The texts of at most n lines over L.
TextsOver(L, n) == {Flatten(s) : s \in UNION {[1..k -> L] : k \in 0..n}}

Absent == [state |-> "absent", text |-> <<>>]
Holding(T) == {Absent} \cup {[state |-> "file", text |-> t] : t \in T}

StaleStaging ==
    [exists |-> TRUE,
     dirs |-> Ancestors(<<"simde", "x">>) \cup {<<"simde", "old">>},
     files |-> (<<"simde", "x", "a">> :> Stale) @@ (<<"simde", "old", "a">> :> Stale)
               @@ (LicensePath :> Stale)]
StaleArchive == [exists |-> TRUE, entries |-> (ArcName(<<"simde", "old", "a">>) :> Stale)]

\* What the target directory holds before the run.
Leftovers == {<<NoStaging, NoArchive>>, <<StaleStaging, NoArchive>>,
              <<StaleStaging, StaleArchive>>}

InitOver(T1, TB, T2) ==
    /\ fs \in {(A1 :> a) @@ (B :> b) @@ (A2 :> c) :
                 a \in Holding(T1), b \in Holding(TB), c \in Holding(T2)}
    /\ copying \in BOOLEAN
    /\ \E l \in Leftovers : staging = l[1] /\ archive = l[2]
    /\ pc = "start"
    /\ idx = 1
    /\ dest = <<>>
    /\ stack = <<>>
    /\ already_included = <<>>
    /\ prov = <<>>
    /\ found = {}
    /\ changed = FALSE
    /\ prev = NoPrev

\* Include graphs: a header of up to MaxLines lines, a nested file that includes
\* back or itself, a second header that reaches the same nested file.
Init ==
    InitOver(TextsOver(GraphLines, MaxLines),
             {TextLine, IncA, IncB, IncUp},
             {IncXB \o TextLine, IncA})

\* Line forms: a header of up to MaxLines lines of any form.
InitLines ==
    InitOver(TextsOver(LineForms, MaxLines), {TextLine}, {})

Spec == Init /\ [][Next]_vars

SpecLines == InitLines /\ [][Next]_vars

\* Include graphs with cycles: a header that includes itself and the nested
\* file, which includes the header, itself or the directory above; an empty
\* target directory.
InitCycles ==
    /\ InitOver(TextsOver({IncB, IncA}, MaxLines), {IncA, IncB, IncUp}, {IncA})
    /\ copying
    /\ staging = NoStaging
    /\ archive = NoArchive

\* The program, once started, takes its next step; the environment need not act.
SpecFair == InitCycles /\ [][Next]_vars /\ WF_vars(Program)

(* ------------------------------------------------------------------ *)
(* Reading the output                                                  *)
(* ------------------------------------------------------------------ *)

\* The writes made so far to the outfile opened last.
Out == IF dest \in DOMAIN staging.files THEN staging.files[dest] ELSE <<>>

Calls == {k \in 1..Len(prov) : prov[k].kind = "banner1"}

\* The writes of the call whose banner starts at position j.
WritesOf(j) == {k \in 1..Len(prov) : prov[k].call = prov[j].call}

\* The call at j is the first one of the run for its path.
FirstFor(j) == \A i \in Calls : i < j => prov[i].path # prov[j].path

\* The line of entry k as the program read it.
ReadOf(k) == Translate(prov[k].raw)

Known == Files \cup Dirs

IsBegin(chunk) == \E p \in Known : chunk = BeginMarker(RelPathStr(p))
IsEnd(chunk)   == \E p \in Known : chunk = EndMarker(RelPathStr(p))

RECURSIVE Scan(_, _)
\* The begin markers of text out left open, in order, after those in open;
\* <<"unbalanced">> when an end marker does not close the last open one.
Scan(out, open) ==
    IF out = <<>> THEN open
    ELSE IF IsBegin(Head(out))
         THEN Scan(Tail(out), Append(open, Head(out)))
         ELSE IF IsEnd(Head(out))
              THEN IF open # <<>> /\ \E p \in Known :
                                       /\ Head(out) = EndMarker(RelPathStr(p))
                                       /\ open[Len(open)] = BeginMarker(RelPathStr(p))
                   THEN Scan(Tail(out), Pop(open))
                   ELSE <<"unbalanced">>
              ELSE Scan(Tail(out), open)

\* The files of the tree that p includes.
Targets(p) ==
    {t \in Files :
       /\ fs[t].state # "absent"
       /\ \E l \in {ReadLines(fs[p].text)[n] : n \in 1..Len(ReadLines(fs[p].text))} :
            /\ IncludeMatch(l) # NoMatch
            /\ RealPath(Join(DirName(p), IncludeMatch(l))) = t}

RECURSIVE Reach(_)
\* The files reachable from those of S through include lines.
Reach(S) ==
    LET N == S \cup UNION {Targets(p) : p \in S}
    IN  IF N = S THEN S ELSE Reach(N)

\* The header the outfile belongs to.
Header == RealPath(Join(source_dir, SubSeq(dest, 2, Len(dest))))

(* ------------------------------------------------------------------ *)
(* C1                                                                  *)
(* ------------------------------------------------------------------ *)

\* C1: within one top-level run, a call for a path that an earlier call of the
\* run was made for writes the two banner lines and nothing else, so the begin
\* and the end marker of a path are written at most once.
C1_DuplicateSuppressed ==
    /\ Len(prov) = Len(Out)
    /\ \A j \in Calls :
         ~FirstFor(j) =>
            /\ WritesOf(j) = {j, j + 1}
            /\ Out[j] = Banner1
            /\ Out[j + 1] = Banner2
    /\ \A k \in 1..Len(Out) :
         (IsBegin(Out[k]) \/ IsEnd(Out[k])) =>
            \A m \in 1..Len(Out) : m # k => Out[m] # Out[k]

\* A file was expanded and then reached a second time.
C1_Witness ==
    \E i, j \in Calls :
        /\ i < j
        /\ prov[i].path = prov[j].path
        /\ \E k \in WritesOf(i) : prov[k].kind = "end"
        /\ j + 2 <= Len(prov)

(* ------------------------------------------------------------------ *)
(* C2                                                                  *)
(* ------------------------------------------------------------------ *)

\* Whether text out holds the begin and then the end marker of p.
Expanded(out, p) ==
    \E i, j \in 1..Len(out) :
        /\ i < j
        /\ out[i] = BeginMarker(RelPathStr(p))
        /\ out[j] = EndMarker(RelPathStr(p))

\* Whether the header of entry i is there and includes p on one of its lines.
Includes(i, p) ==
    /\ fs[RealPath(SourcePath(i))].state = "file"
    /\ p \in Targets(RealPath(SourcePath(i)))

\* C2: the first call of a run for a path is never skipped, whatever earlier
\* runs expanded (it opens the file, reports it gone, or is the call on a
\* directory that ends the run); and when main is done and no file vanished, every header
\* that includes a file holds that file's expansion in its own output.
C2_RunsIsolated ==
    /\ \A j \in Calls :
         FirstFor(j) =>
            \/ \E k \in WritesOf(j) : prov[k].kind \in {"begin", "error"}
            \/ Kind(prov[j].path) = "dir" /\ j + 1 = Len(prov)
    /\ (pc = "done" /\ \A f \in Files : fs[f].state # "gone") =>
          \A i \in 1..Len(EXPECTED_FILES) : \A p \in Files :
              Includes(i, p) => Expanded(staging.files[DestPath(i)], p)

\* Both headers include the same nested file and both outputs expand it.
C2_Witness ==
    /\ pc = "done"
    /\ Includes(1, B) /\ Includes(2, B)
    /\ Expanded(staging.files[DestPath(1)], B)
    /\ Expanded(staging.files[DestPath(2)], B)

(* ------------------------------------------------------------------ *)
(* C3                                                                  *)
(* ------------------------------------------------------------------ *)

RECURSIVE RStrip(_)
\* s without its trailing whitespace.
RStrip(s) ==
    IF s # <<>> /\ IsSpace(s[Len(s)]) THEN RStrip(SubSeq(s, 1, Len(s) - 1)) ELSE s

\* The quoted path of a line made of leading whitespace, the directive, a
\* double-quoted path and any amount of trailing whitespace; NoMatch otherwise.
DirectiveTarget(s) ==
    LET t == RStrip(s)
        h == SkipSpace(t, 1)
        w == SkipSpace(t, h + 1)
        e == w + Len(IncludeWord)
        q == SkipSpace(t, e)
    IN  IF /\ h <= Len(t) /\ t[h] = "#"
           /\ e - 1 <= Len(t) /\ SubSeq(t, w, e - 1) = IncludeWord
           /\ q > e
           /\ q + 2 <= Len(t) /\ t[q] = "\"" /\ t[Len(t)] = "\""
           /\ \A k \in (q + 1)..(Len(t) - 1) : t[k] \notin {"\"", ")"}
        THEN SubSeq(t, q + 1, Len(t) - 1)
        ELSE NoMatch

\* C3: no line of that form whose target exists is written out as a line: it is
\* replaced by the amalgamation of its target.
C3_EveryDirectiveFormExpanded ==
    \A k \in 1..Len(prov) :
        (/\ prov[k].kind = "line"
         /\ ~changed
         /\ DirectiveTarget(ReadOf(k)) # NoMatch)
        => ~Exists(Join(DirName(prov[k].path), DirectiveTarget(ReadOf(k))))

(* ------------------------------------------------------------------ *)
(* C4                                                                  *)
(* ------------------------------------------------------------------ *)

\* The entries of lines that are no include directive for the program.
PlainLines == {k \in 1..Len(prov) : prov[k].kind = "line" /\ IncludeMatch(ReadOf(k)) = NoMatch}

\* C4 as stated: such a line is in the output as it is in the file, line
\* ending included.
C4_WrittenWithItsLineEnding ==
    \A k \in PlainLines : Out[k] = prov[k].raw

\* Line n of the file of call c is in the output, or is an include directive.
Written(path, c, n) ==
    \/ IncludeMatch(ReadLines(fs[path].text)[n]) # NoMatch
    \/ \E k \in PlainLines : prov[k].call = c /\ prov[k].ln = n

\* C4 as amended: a line that is no include directive is written with its
\* characters unchanged and its line ending read as "\n"; every such line that
\* the program has passed is in the output, and they keep their order.
C4_WrittenAsRead ==
    /\ \A k \in PlainLines :
         /\ prov[k].ln \in 1..Len(RawLines(fs[prov[k].path].text))
         /\ prov[k].raw = RawLines(fs[prov[k].path].text)[prov[k].ln]
         /\ Out[k] = Translate(prov[k].raw)
    /\ \A k1, k2 \in PlainLines :
         (k1 < k2 /\ prov[k1].call = prov[k2].call) => prov[k1].ln < prov[k2].ln
    /\ \A i \in 1..Len(stack) :
         stack[i].stage = "body" =>
            \A n \in 1..(stack[i].ln - 1) : Written(stack[i].full_path, stack[i].call, n)
    /\ \A e \in 1..Len(prov) :
         prov[e].kind = "end" =>
            /\ prov[e].ln = Len(ReadLines(fs[prov[e].path].text)) + 1
            /\ \A n \in 1..(prov[e].ln - 1) : Written(prov[e].path, prov[e].call, n)

\* A commented-out include and a line that ends in "\r\n" were written.
C4_Witness ==
    /\ \E k \in PlainLines : prov[k].raw = TextCrLf /\ Out[k] = TextLine
    /\ \E k \in PlainLines : prov[k].raw = IncBQuoted /\ Out[k] = IncBQuoted

(* ------------------------------------------------------------------ *)
(* C5                                                                  *)
(* ------------------------------------------------------------------ *)

\* The entries of include directives written out because the target is missing.
Fallbacks == {k \in 1..Len(prov) : prov[k].kind = "line" /\ IncludeMatch(ReadOf(k)) # NoMatch}

\* C5 as stated: the directive is in the output exactly as it is in the file,
\* and nothing of a call follows from it.
C5_FallbackAsInSource ==
    \A k \in Fallbacks :
        /\ Out[k] = prov[k].raw
        /\ \A m \in 1..Len(prov) : ~(prov[m].parent = prov[k].call /\ prov[m].at = prov[k].ln)

\* The program is at an include directive whose target is missing.
AtFallback ==
    /\ pc = "amalgamate"
    /\ Top.stage = "body"
    /\ Top.ln <= Len(Top.lines)
    /\ IncludeMatch(Top.lines[Top.ln]) # NoMatch
    /\ ~Exists(Join(Top.srcdir, IncludeMatch(Top.lines[Top.ln])))

\* C5 as amended: the step the program takes at such a directive writes the
\* directive as read (its line ending as "\n") and nothing else, calls nothing
\* and leaves the record as it is.
C5_FallbackAsRead ==
    [][(AtFallback /\ stack' # stack) =>
          /\ staging' = [staging EXCEPT !.files[dest] =
                           Append(@, Translate(Top.raw[Top.ln]))]
          /\ Translate(Top.raw[Top.ln]) = Top.lines[Top.ln]
          /\ Len(stack') = Len(stack)
          /\ already_included' = already_included]_vars

\* A directive with a missing target and a "\r\n" ending was written out.
C5_Witness ==
    \E k \in Fallbacks :
        /\ prov[k].raw = IncZCrLf
        /\ Out[k] = LocalInclude(<<"z">>) \o <<NL>>
        /\ RealPath(Join(DirName(prov[k].path), <<"z">>)) \notin
              {already_included[i] : i \in 1..Len(already_included)}

(* ------------------------------------------------------------------ *)
(* C6                                                                  *)
(* ------------------------------------------------------------------ *)

\* C6: every call for a path not yet in the record either opens the file or
\* writes the diagnostic line, and the run goes on.
C6_OpenFailureDiagnosed ==
    /\ pc # "crashed"
    /\ \A j \in Calls :
         FirstFor(j) => \E k \in WritesOf(j) : prov[k].kind \in {"begin", "error"}

(* ------------------------------------------------------------------ *)
(* C7                                                                  *)
(* ------------------------------------------------------------------ *)

\* The frames of the calls that have opened their file.
Bodies == SelectSeq(stack, LAMBDA f : f.stage = "body")

\* C7: a begin marker follows the two banner lines of its call and names the
\* file's root-relative path; the call's end marker names the same path; the
\* markers of the output nest, those left open being the ones of the files
\* the program is still reading: none once the outfile is closed.
C7_BeginBodyEnd ==
    /\ \A k \in 1..Len(prov) :
         prov[k].kind = "begin" =>
            /\ k > 2
            /\ prov[k - 2].kind = "banner1" /\ prov[k - 2].call = prov[k].call
            /\ Out[k - 2] = Banner1
            /\ Out[k - 1] = Banner2
            /\ Out[k] = BeginMarker(PathText(prov[k].path))
    /\ \A e \in 1..Len(prov) :
         prov[e].kind = "end" =>
            /\ Out[e] = EndMarker(PathText(prov[e].path))
            /\ \E k \in 1..(e - 1) : prov[k].kind = "begin" /\ prov[k].call = prov[e].call
    /\ Scan(Out, <<>>) = [i \in 1..Len(Bodies) |-> BeginMarker(PathText(Bodies[i].full_path))]

\* The same, for the outputs of runs in which no call was made on a directory.
C7_UnlessRaised ==
    (\A j \in Calls : Kind(prov[j].path) # "dir") => C7_BeginBodyEnd

(* ------------------------------------------------------------------ *)
(* C8                                                                  *)
(* ------------------------------------------------------------------ *)

\* C8: when main is done, the archive holds one entry for each configured
\* entry whose source path existed when the loop came to it, the license file
\* when there is one, and nothing else; each entry is the staged file; every
\* configured entry whose file is still there was found.
C8_ArchiveComplete ==
    pc = "done" =>
       /\ archive.exists
       /\ DOMAIN archive.entries =
             {ArcName(DestPath(i)) : i \in found}
             \cup (IF copying THEN {ArcName(LicensePath)} ELSE {})
       /\ \A a \in DOMAIN archive.entries :
             archive.entries[a] = staging.files[SubSeq(a, 2, Len(a))]
       /\ found \subseteq 1..Len(EXPECTED_FILES)
       /\ \A i \in 1..Len(EXPECTED_FILES) :
             /\ fs[RealPath(SourcePath(i))].state = "file" => i \in found
             /\ i \in found => fs[RealPath(SourcePath(i))].state # "absent"

\* The first entry was missing, the second was amalgamated, the license copied.
C8_Witness ==
    /\ pc = "done"
    /\ fs[A1].state = "absent"
    /\ found = {2}
    /\ copying
    /\ Cardinality(DOMAIN archive.entries) = 2

(* ------------------------------------------------------------------ *)
(* C9                                                                  *)
(* ------------------------------------------------------------------ *)

\* C9: once a run is past its start, the staging directory holds only what
\* this run made (the outfiles of the entries it found, the license it
\* copied, the directories of the configured entries) and an archive is there
\* only as the zip of that; a run that ends after a completed run, with no
\* source file gone since, leaves the same staging tree and the same archive.
C9_CleanRebuild ==
    /\ pc # "start" =>
          /\ staging.exists
          /\ DOMAIN staging.files \subseteq
                {DestPath(i) : i \in found}
                \cup (IF copying /\ pc \in {"archive", "done"} THEN {LicensePath} ELSE {})
          /\ \A f \in DOMAIN staging.files : staging.files[f] # Stale
          /\ staging.dirs \subseteq
                UNION {Ancestors(DirName(DestPath(i))) : i \in 1..Len(EXPECTED_FILES)}
          /\ archive.exists => pc = "done" /\ archive = Zipped(staging)
    /\ (pc = "done" /\ prev.valid) =>
          /\ staging = prev.staging
          /\ archive = prev.archive

\* A second run over the same sources is done and has made files.
C9_Witness ==
    /\ pc = "done"
    /\ prev.valid
    /\ found = {1, 2}
    /\ LicensePath \in DOMAIN staging.files

(* ------------------------------------------------------------------ *)
(* C10                                                                 *)
(* ------------------------------------------------------------------ *)

\* The files reachable from the header being amalgamated.
Reachable == Reach({stack[1].full_path})

\* C10 as stated: the calls in progress are never more than the files reachable
\* from the top-level header.
C10_DepthWithinFiles ==
    stack # <<>> => Len(stack) <= Cardinality(Reachable)

\* A file is in the record from the moment it is opened, no file is open in two
\* calls at a time or opened twice in a run, and the calls in progress are at
\* most one more than the files reachable from the header: the files being
\* read, and a call that has yet to look at the record.
C10_Bounded ==
    /\ \A i \in 1..Len(stack) :
         /\ stack[i].stage = "body" => InRecord(already_included, stack[i].full_path)
         /\ stack[i].stage = "call" => i = Len(stack)
    /\ \A i, j \in 1..Len(Bodies) : i # j => Bodies[i].full_path # Bodies[j].full_path
    /\ \A p \in Known :
         Cardinality({k \in 1..Len(prov) : prov[k].kind \in {"begin", "error"}
                                              /\ prov[k].path = p}) <= 1
    /\ stack # <<>> =>
          /\ Len(Bodies) <= Cardinality(Reachable)
          /\ Len(stack) <= Cardinality(Reachable) + 1

\* C10 as amended: every top-level call of amalgamate ends (main is outside of
\* it again and again, whatever the include graph), and the bounds above hold
\* throughout.
C10_Terminates ==
    /\ []C10_Bounded
    /\ []<>(pc # "amalgamate")

\* A file that includes itself, or a file it includes, is called again while
\* it is being read.
C10_Witness ==
    /\ Len(stack) >= 2
    /\ Top.stage = "call"
    /\ \E i \in 1..(Len(stack) - 1) : stack[i].full_path = Top.full_path

====
